---- MODULE Spec2Model ----
(***************************************************************************)
(* State-machine model of the ledger engine of src/ets.py: the Blockchain  *)
(* object (chain, mempool, world state), the two producer tasks of         *)
(* BlockchainNode that call create_block, the peer-message handlers and    *)
(* the reindex operation.                                                   *)
(*                                                                         *)
(* Conventions                                                             *)
(*  - Amounts are exact rationals in the source.  Every amount the model   *)
(*    handles is a multiple of MIN_FEE = 1/1000 BRAINERS, so amounts are   *)
(*    integers counted in that unit (MIN_FEE = 1, one BRAINERS = 1000).    *)
(*  - Python dicts (accounts is a defaultdict of defaultdicts) are         *)
(*    functions with an explicit DOMAIN: reading a missing key of a        *)
(*    defaultdict inserts it, and the model inserts it too.                *)
(*  - SHA-256 is modelled as an injective function: a digest is the tuple  *)
(*    of the values that are hashed.                                       *)
(*  - asyncio tasks are interleaved only at awaits that really suspend     *)
(*    (the database writes of save_block); an action is the code between   *)
(*    two suspension points.                                               *)
(*  - ECDSA verification is the external library's job: a transaction      *)
(*    carries signature "good" when the library accepts it, "bad" when it  *)
(*    rejects it, and "none" when the code never signed it.                *)
(*                                                                         *)
(* Specifications                                                          *)
(*  - Spec, LiveSpec: the started node with transfers, stakes and peer     *)
(*    blocks; StakingSpec and TokenSpec: the same node fed with staking    *)
(*    and token transactions; RestartSpec: the node stopped and started    *)
(*    again on its store; GenesisSpec: two nodes running genesis;          *)
(*    FeeSpec: the fee computed at various mempool depths;                 *)
(*    SyncSpec: peers sending blocks and sync requests; TransferSpec:      *)
(*    transfers of BRAINERS and of a token; AssemblySpec: blocks cut from  *)
(*    short and from overfull mempools; DexSpec, TtfSpec, TuvSpec: the     *)
(*    order book, the futures positions and the vaults; UnstakeSpec and    *)
(*    RestakeSpec: stakes and unstakes of one account; CreateTokenSpec:    *)
(*    one request to create a token; AnyOrderSpec: orders of any amount;   *)
(*    SubledgerSpec: DEX, TTF and TUV transactions committed in blocks.    *)
(***************************************************************************)
EXTENDS Integers, Sequences, FiniteSets, TLC

VARIABLES chain, mempool, accounts, validators, state_root,
          task, frame, relayed, burned_total, rewards_issued, now,
          tokens, pending_transactions, store, peer_chain, quoted_fee,
          orders, trade_txs, positions, oracle_prices, tuvs,
          connection, sent

vars == <<chain, mempool, accounts, validators, state_root,
          task, frame, relayed, burned_total, rewards_issued, now,
          tokens, pending_transactions, store, peer_chain, quoted_fee,
          orders, trade_txs, positions, oracle_prices, tuvs,
          connection, sent>>

\* The DEX, TTF and TUV objects of the Blockchain
subsystems == <<orders, trade_txs, positions, oracle_prices, tuvs>>

\* The websocket connection of a peer and the last message sent on it
wire == <<connection, sent>>

-----------------------------------------------------------------------------
(* Program constants, in units of MIN_FEE.                                 *)

MIN_FEE == 1
MAX_FEE == 10
MAX_TRANSACTIONS_PER_BLOCK == 10000
BRAINERS_UNIT == 1000 * MIN_FEE
GIFT_VALIDATOR_BURN == 6000 * BRAINERS_UNIT
min_stake == 10000 * BRAINERS_UNIT
MIN_LIQUIDITY_DEX == 1000000 * BRAINERS_UNIT

\* Blockchain.calculate_block_reward: Fraction(1, 1)
calculate_block_reward == 1 * BRAINERS_UNIT

\* The constructor argument of Blockchain(total_supply), in lots of 10000
\* BRAINERS (every share of the genesis distribution is then an integer).
SupplyLots == 15
total_supply == SupplyLots * 10000 * BRAINERS_UNIT

\* Bound on the number of transactions waiting in the mempool.
MaxMempool == 2

\* Bound on the number of POST /transaction requests the node serves.
MaxHttpRequests == 1

\* Bound on the key pairs ec.generate_private_key can draw for a wallet.
MaxWalletKeys == 3

\* Bound on the time, after StartTime, at which a node runs genesis.
MaxGenesisDelay == 3

\* The mempool depths at which fees are computed: multiples of FeeDepthStep
\* up to MaxDepthSteps of them.
FeeDepthStep == 150
MaxDepthSteps == 50

\* Bound on the number of new_block messages the node passes on to its peers.
MaxRelayed == 1

\* How far below zero the last_block of a sync_request may lie.
MaxSyncBack == 3

\* Bound on the open positions of one future.
MaxPositions == 2

\* Bound on the number of orders placed.
MaxOrders == 3

\* How far the clock runs while vaults are created and claimed.
MaxTuvTime == 4

ZERO == "0"
ZERO_HASH == <<>>
BRAINERS == "BRAINERS"
\* time.time() when start() has finished; the peers' transactions carry
\* earlier timestamps.
StartTime == 10
EmptyMap == [x \in {} |-> 0]

\* self.state_root = None
NoRoot == <<>>

\* Nothing was sent on the connection yet
NoMessage == [type |-> "none"]

\* The tables of the sqlite store, empty: rows of blocks and of transactions
EmptyStore == [blocks |-> {}, transactions |-> {}]

\* Fraction(numerator, denominator), in units of MIN_FEE
Fraction(n, d) == <<n, d>>
NoFee == Fraction(0, 1)

-----------------------------------------------------------------------------
(* defaultdict(lambda: defaultdict(Fraction)) helpers                      *)

Bal(acc, a, t) ==
    IF a \in DOMAIN acc THEN (IF t \in DOMAIN acc[a] THEN acc[a][t] ELSE 0) ELSE 0

Put(acc, a, t, v) ==
    LET inner == IF a \in DOMAIN acc THEN acc[a] ELSE EmptyMap
        inner2 == [y \in (DOMAIN inner) \cup {t} |-> IF y = t THEN v ELSE inner[y]]
    IN  [x \in (DOMAIN acc) \cup {a} |-> IF x = a THEN inner2 ELSE acc[x]]

\* accounts[a][t] read: inserts the key with Fraction() = 0 when it is missing
Touch(acc, a, t) == Put(acc, a, t, Bal(acc, a, t))

\* accounts[a][t] = d
Add_overwriting(acc, a, t, d) == Put(acc, a, t, d)

\* accounts[a][t] += d
Add(acc, a, t, d) == Put(acc, a, t, Bal(acc, a, t) + d)

SetKey(f, k, v) == [x \in (DOMAIN f) \cup {k} |-> IF x = k THEN v ELSE f[x]]

RECURSIVE SumSeq(_)
SumSeq(s) == IF s = <<>> THEN 0 ELSE Head(s) + SumSeq(Tail(s))

RECURSIVE SumOver(_, _)
SumOver(S, f) ==
    IF S = {} THEN 0
    ELSE LET x == CHOOSE y \in S : TRUE IN f[x] + SumOver(S \ {x}, f)

-----------------------------------------------------------------------------
(* Transaction                                                             *)

\* Transaction.calculate_hash: sha256 over sender, recipient, amount, type,
\* fee, data and timestamp (the signature is not hashed).
tx_calculate_hash(sender, recipient, amount, type, fee, token, timestamp) ==
    <<sender, recipient, amount, type, fee, token, timestamp>>

Transaction(sender, recipient, amount, type, fee, token, signature, timestamp) ==
    [sender |-> sender, recipient |-> recipient, amount |-> amount,
     transaction_type |-> type, fee |-> fee, token |-> token,
     signature |-> signature, timestamp |-> timestamp,
     hash |-> tx_calculate_hash(sender, recipient, amount, type, fee, token, timestamp)]

\* Transaction.verify_signature: True when the library accepts the signature;
\* base58.b58decode(None) raises for an unsigned transaction, which the bare
\* except turns into False.
verify_signature(tx) == tx.signature = "good"

-----------------------------------------------------------------------------
(* Block                                                                   *)

\* One level of the tree: the hashes of the pairs, the last node paired with
\* itself when the level is odd.
merkle_level(hs) ==
    [i \in 1..((Len(hs) + 1) \div 2) |->
        <<hs[2 * i - 1], IF 2 * i <= Len(hs) THEN hs[2 * i] ELSE hs[2 * i - 1]>>]

RECURSIVE merkle_reduce(_)
merkle_reduce(hs) == IF Len(hs) > 1 THEN merkle_reduce(merkle_level(hs)) ELSE hs[1]

\* Block.calculate_merkle_root
calculate_merkle_root(txs) ==
    IF txs = <<>> THEN <<"sha256-empty">>
    ELSE merkle_reduce([i \in 1..Len(txs) |-> txs[i].hash])

\* Block.calculate_hash: sha256 over index, merkle_root, timestamp,
\* previous_hash and validator.
block_calculate_hash(index, merkle_root, previous_hash, validator) ==
    <<index, merkle_root, previous_hash, validator>>

Block(index, txs, previous_hash, validator) ==
    LET mr == calculate_merkle_root(txs) IN
    [index |-> index, transactions |-> txs, previous_hash |-> previous_hash,
     validator |-> validator, merkle_root |-> mr,
     hash |-> block_calculate_hash(index, mr, previous_hash, validator)]

-----------------------------------------------------------------------------
(* Validator                                                               *)

\* reputation is kept in tenths: Fraction(1) is 10
Validator(address, stake, is_gift) ==
    [address |-> address, stake |-> stake, is_gift |-> is_gift,
     last_block_validated |-> 0, reputation |-> 10, is_active |-> TRUE,
     total_rewards |-> 0]

\* Validator.update_reputation(performance), performance in tenths
update_reputation(v, performance) ==
    [v EXCEPT !.reputation = (v.reputation * 9) \div 10 + performance \div 10]

-----------------------------------------------------------------------------
(* Signature check and fee                                                 *)

\* Blockchain.verify_transaction
verify_transaction(tx) ==
    IF tx.transaction_type = "genesis" THEN TRUE ELSE verify_signature(tx)

RECURSIVE Pow(_, _)
Pow(b, e) == IF e = 0 THEN 1 ELSE b * Pow(b, e - 1)

\* Blockchain.calculate_transaction_fee: base_fee * (3/2) ** (len(pending) // 1000),
\* clamped to [MIN_FEE, MAX_FEE]; the result is a Fraction in lowest terms.
calculate_transaction_fee(pending) ==
    LET k == Len(pending) \div 1000
        num == MIN_FEE * Pow(3, k)
        den == Pow(2, k)
    IN  IF num < MIN_FEE * den THEN Fraction(MIN_FEE, 1)
        ELSE IF num > MAX_FEE * den THEN Fraction(MAX_FEE, 1)
        ELSE Fraction(num, den)

\* A Fraction as an amount of the ledger (whole units of MIN_FEE; every fee the
\* node computes has denominator 1)
units(f) == f[1] \div f[2]

-----------------------------------------------------------------------------
(* Sub-ledgers: the addresses, dicts and computations of DEX, TTF and TUV  *)
(* that apply_transaction and the methods called directly share.  Their   *)
(* units are explained where the methods are modelled.                    *)

dex_address == "0xBrainersDEX"

\* self.fee_percentage = Fraction(3, 1000)
fee_percentage == Fraction(3, 1000)

\* self.orders[token_address] of the defaultdict(list)
orders_of(book, token_address) ==
    IF token_address \in DOMAIN book THEN book[token_address] ELSE <<>>

\* sorted(..., key=price): a stable sort, descending with reverse=True
RECURSIVE insert_sorted(_, _, _)
insert_sorted(sorted, o, reverse) ==
    IF sorted = <<>> THEN <<o>>
    ELSE IF (reverse /\ o.price > Head(sorted).price)
            \/ (~reverse /\ o.price < Head(sorted).price)
         THEN <<o>> \o sorted
         ELSE <<Head(sorted)>> \o insert_sorted(Tail(sorted), o, reverse)

RECURSIVE sorted_by_price(_, _)
sorted_by_price(list, reverse) ==
    IF list = <<>> THEN <<>>
    ELSE insert_sorted(sorted_by_price(SubSeq(list, 1, Len(list) - 1), reverse),
                       list[Len(list)], reverse)

\* The larger of the two amounts
larger(a, b) == IF a <= b THEN b ELSE a

\* min(buy_order['amount'], sell_order['amount'])
min(a, b) == IF a <= b THEN a ELSE b

\* DEX.execute_trade: the trade transaction it builds (unsigned, so that
\* add_transaction turns it down after reading the DEX address's balance)
\* and the balances it changes itself.
execute_trade(acc, token_address, buyer, seller, amount, price) ==
    LET brainers_amount == (amount * price[1] * BRAINERS_UNIT) \div price[2]
        fee == (brainers_amount * fee_percentage[1]) \div fee_percentage[2]
        acc0 == Touch(acc, dex_address, BRAINERS)
        acc1 == Add(acc0, buyer, token_address, amount)
        acc2 == Add(acc1, buyer, BRAINERS, 0 - (brainers_amount + fee \div 2))
        acc3 == Add(acc2, seller, token_address, 0 - amount)
        acc4 == Add(acc3, seller, BRAINERS, brainers_amount - fee \div 2)
    IN  [accounts |-> acc4,
         trade_tx |-> [buyer |-> buyer, seller |-> seller, token_amount |-> amount,
                       brainers_amount |-> brainers_amount, fee |-> fee]]

\* The while loop of DEX.match_orders
RECURSIVE match_loop(_, _, _, _, _)
match_loop(token_address, buy_orders, sell_orders, acc, trades) ==
    IF buy_orders # <<>> /\ sell_orders # <<>>
       /\ buy_orders[1].price >= sell_orders[1].price
    THEN LET buy_order == buy_orders[1]
             sell_order == sell_orders[1]
             trade_price == Fraction(buy_order.price + sell_order.price, 2)
             trade_amount == min(buy_order.amount, sell_order.amount)
             done == execute_trade(acc, token_address, buy_order.trader,
                                   sell_order.trader, trade_amount, trade_price)
             buys == IF buy_order.amount = trade_amount THEN Tail(buy_orders)
                     ELSE <<[buy_order EXCEPT !.amount = @ - trade_amount]>>
                             \o Tail(buy_orders)
             sells == IF sell_order.amount = trade_amount THEN Tail(sell_orders)
                      ELSE <<[sell_order EXCEPT !.amount = @ - trade_amount]>>
                              \o Tail(sell_orders)
         IN  match_loop(token_address, buys, sells, done.accounts,
                        Append(trades, done.trade_tx))
    ELSE [orders |-> buy_orders \o sell_orders, accounts |-> acc, trades |-> trades]

\* DEX.match_orders
match_orders(token_address, list, acc) ==
    match_loop(token_address,
               sorted_by_price(SelectSeq(list, LAMBDA o : o.type = "buy"), TRUE),
               sorted_by_price(SelectSeq(list, LAMBDA o : o.type = "sell"), FALSE),
               acc, <<>>)

\* The order dict of place_order
Order(trader, order_type, amount, price, timestamp) ==
    [trader |-> trader, type |-> order_type, amount |-> amount, price |-> price,
     timestamp |-> timestamp]

PriceUnit == 10

\* Prices an oracle reports: 9/10 and 1
OraclePrices == {PriceUnit - 1, PriceUnit}

\* self.futures after create_future ran for two tokens
futures ==
    ("TTF-TKN" :> [token_address |-> "TKN"]) @@ ("TTF-OTH" :> [token_address |-> "OTH"])

ttf_address == "0xBrainersTTF"

\* TTF.get_oracle_price: self.oracle_prices.get(token_address, Fraction(1))
get_oracle_price(prices, token_address) ==
    IF token_address \in DOMAIN prices THEN prices[token_address] ELSE PriceUnit

\* self.positions[future_id] of the defaultdict(list)
positions_of(pos, future_id) ==
    IF future_id \in DOMAIN pos THEN pos[future_id] ELSE <<>>

\* The position dict of open_position
Position(trader, position_type, amount, leverage, open_price) ==
    [trader |-> trader, type |-> position_type, amount |-> amount,
     leverage |-> leverage, collateral |-> Fraction(amount, leverage),
     open_price |-> open_price]

tuv_address == "0xBrainersTUV"

\* tuv_id: a digest of creator, name and time.time()
tuv_id_of(creator, name, time) == "TUV-" \o creator \o name \o ToString(time)

-----------------------------------------------------------------------------
(* World state and the state transition function                           *)

\* The part of the Blockchain object that apply_transaction reads and writes,
\* with the running total of what has been burned and whether the call raised.
\* time is the clock that Token.generate_address reads.  sub is what the DEX,
\* TTF and TUV objects hold, with the transactions that the add_transaction
\* calls made while applying have appended to the mempool (admitted).
World(acc, vals, toks, burned, time) ==
    [accounts |-> acc, validators |-> vals, tokens |-> toks, burned |-> burned,
     time |-> time, raised |-> FALSE,
     sub |-> [orders |-> orders, trade_txs |-> trade_txs, positions |-> positions,
              tuvs |-> tuvs, admitted |-> <<>>]]

\* Blockchain.add_transaction called by a DEX, TTF or TUV method while a
\* transaction is applied: the balance check reads accounts[sender][token].
world_add_transaction(w, tx) ==
    LET acc == Touch(w.accounts, tx.sender, tx.token) IN
    IF Bal(w.accounts, tx.sender, tx.token) < tx.amount + tx.fee
    THEN [w EXCEPT !.accounts = acc]
    ELSE [w EXCEPT !.accounts = acc,
                   !.sub.admitted = IF verify_transaction(tx) THEN Append(@, tx) ELSE @]

\* The transaction a DEX, TTF or TUV method builds: no signature is given.
\* Its fee is calculate_transaction_fee of the pending transactions.
method_transaction(w, sender, recipient, amount, transaction_type) ==
    Transaction(sender, recipient, amount, transaction_type,
                units(calculate_transaction_fee(pending_transactions)),
                BRAINERS, "none", w.time)

\* DEX.add_liquidity with an empty pool: below MIN_LIQUIDITY_DEX the call
\* returns at its first test.  Above it the pool, which is not part of the
\* state kept here, grows and the add_liquidity transaction is handed to
\* add_transaction; no account of the model can afford such an amount.
dex_add_liquidity(w, tx) ==
    IF tx.amount < MIN_LIQUIDITY_DEX THEN w
    ELSE world_add_transaction(
             w, method_transaction(w, tx.sender, dex_address, tx.amount, "add_liquidity"))

\* DEX.place_order and match_orders on the order dicts of the world
dex_place_order(w, token_address, order_type, amount, price, trader) ==
    LET list == Append(orders_of(w.sub.orders, token_address),
                       Order(trader, order_type, amount, price, w.time))
        w1 == world_add_transaction(
                  w, method_transaction(w, trader, dex_address, 0, "place_order"))
        matched == match_orders(token_address, list, w1.accounts)
    IN  [w1 EXCEPT !.accounts = matched.accounts,
                   !.sub.orders = SetKey(@, token_address, matched.orders),
                   !.sub.trade_txs = matched.trades,
                   !.time = @ + 1]

\* TTF.create_future: the pool of the token holds no BRAINERS, which is below
\* MIN_LIQUIDITY_TTF, and the call returns at its first test.
ttf_create_future(w, tx) == w

\* TTF.open_position, amount in whole BRAINERS
ttf_open_position(w, future_id, trader, position_type, amount, leverage) ==
    IF future_id \notin DOMAIN futures THEN w
    ELSE IF Bal(w.accounts, trader, BRAINERS) * leverage < amount * BRAINERS_UNIT
    THEN [w EXCEPT !.accounts = Touch(@, trader, BRAINERS)]
    ELSE LET position == Position(trader, position_type, amount, leverage,
                                  get_oracle_price(oracle_prices,
                                                   futures[future_id].token_address))
             w1 == [w EXCEPT !.sub.positions =
                        SetKey(@, future_id,
                               Append(positions_of(w.sub.positions, future_id), position))]
         IN  world_add_transaction(
                 w1, method_transaction(w1, trader, ttf_address,
                                        (amount * BRAINERS_UNIT) \div leverage,
                                        "open_ttf_position"))

\* TUV.create_tuv
tuv_create_tuv(w, creator, name, token_address, token_amount, lock_period) ==
    LET w1 == [w EXCEPT !.sub.tuvs =
                   SetKey(@, tuv_id_of(creator, name, w.time),
                          [creator |-> creator, owner |-> creator, name |-> name,
                           token_address |-> token_address,
                           token_amount |-> token_amount,
                           lock_period |-> lock_period, creation_time |-> w.time]),
                        !.time = @ + 1]
    IN  world_add_transaction(
            w1, method_transaction(w, creator, tuv_address, token_amount, "create_tuv"))

\* Token.__init__: circulating_supply starts at Fraction(0)
Token(name, symbol, supply, creator, address) ==
    [name |-> name, symbol |-> symbol, total_supply |-> supply,
     circulating_supply |-> 0, creator |-> creator, address |-> address]

\* Token.generate_address: sha256 over name, symbol, total_supply, creator and
\* time.time(); the digest is written out as the text of what is hashed.
token_generate_address(name, symbol, supply, creator, time) ==
    "0xBrainers" \o name \o symbol \o ToString(supply) \o creator \o "@" \o ToString(time)

\* DEX.remove_liquidity: no add_liquidity is ever applied in this model, so the
\* pool read from the defaultdict is {BRAINERS: 0, TOKEN: 0}, total_liquidity
\* is 0 and liquidity_amount / total_liquidity raises ZeroDivisionError.
dex_remove_liquidity(w, tx) == [w EXCEPT !.raised = TRUE]

apply_transaction(w, tx) ==
    LET ty == tx.transaction_type
        s  == tx.sender
        r  == tx.recipient
        token == tx.token
    IN
    IF ty \in {"transfer", "genesis", "reward"} THEN
        [w EXCEPT !.accounts = Add(Add(w.accounts, s, token, -(tx.amount + tx.fee)),
                                   r, token, tx.amount),
                  !.burned = IF ty = "transfer" /\ token = BRAINERS
                             THEN w.burned + tx.fee ELSE w.burned]
    ELSE IF ty = "create_token" THEN
        LET address == token_generate_address(tx.name, tx.symbol, tx.amount, s, w.time)
            new_token == Token(tx.name, tx.symbol, tx.amount, s, address)
        IN  [w EXCEPT !.tokens = SetKey(w.tokens, address, new_token),
                      !.accounts = Put(w.accounts, s, address, tx.amount),
                      !.time = w.time + 1]
    ELSE IF ty = "stake" THEN
        [w EXCEPT !.accounts = Add(w.accounts, s, BRAINERS, -(tx.amount + tx.fee)),
                  !.validators =
                      IF s \notin DOMAIN w.validators
                      THEN SetKey(w.validators, s, Validator(s, tx.amount, FALSE))
                      ELSE [w.validators EXCEPT ![s].stake = @ + tx.amount],
                  !.burned = w.burned + tx.fee]
    ELSE IF ty = "unstake" THEN
        IF s \in DOMAIN w.validators THEN
            LET stake2 == w.validators[s].stake - tx.amount IN
            [w EXCEPT !.validators =
                          [w.validators EXCEPT ![s].stake = stake2,
                               ![s].is_active = IF stake2 < min_stake THEN FALSE ELSE @],
                      !.accounts = Add(w.accounts, s, BRAINERS, tx.amount - tx.fee),
                      !.burned = w.burned + tx.fee]
        ELSE w
    ELSE IF ty = "gift_validator" THEN
        [w EXCEPT !.accounts = Add(w.accounts, s, BRAINERS, -(GIFT_VALIDATOR_BURN + tx.fee)),
                  !.validators = SetKey(w.validators, r, Validator(r, GIFT_VALIDATOR_BURN, TRUE)),
                  !.burned = w.burned + GIFT_VALIDATOR_BURN + tx.fee]
    ELSE IF ty = "burn" THEN
        [w EXCEPT !.accounts = Add(w.accounts, s, token, -(tx.amount + tx.fee)),
                  !.burned = IF token = BRAINERS THEN w.burned + tx.amount + tx.fee
                             ELSE w.burned]
    ELSE IF ty = "add_liquidity" THEN
        dex_add_liquidity(w, tx)
    ELSE IF ty = "remove_liquidity" THEN
        dex_remove_liquidity(w, tx)
    ELSE IF ty = "place_order" THEN
        dex_place_order(w, tx.token_address, tx.order_type, tx.amount, tx.price, s)
    ELSE IF ty = "create_ttf" THEN
        ttf_create_future(w, tx)
    ELSE IF ty = "open_ttf_position" THEN
        ttf_open_position(w, tx.future_id, s, tx.position_type,
                          tx.amount \div BRAINERS_UNIT, tx.leverage)
    ELSE IF ty = "create_tuv" THEN
        tuv_create_tuv(w, s, tx.name, tx.token_address, tx.amount, tx.lock_period)
    ELSE w

\* for tx in transactions: await self.apply_transaction(tx)
\* An exception leaves the effects of the transactions before it in place.
\* The list is walked by halves, left half first, so that a block of
\* MAX_TRANSACTIONS_PER_BLOCK transactions can be evaluated.
RECURSIVE apply_all(_, _)
apply_all(w, txs) ==
    IF txs = <<>> \/ w.raised THEN w
    ELSE IF Len(txs) = 1 THEN apply_transaction(w, txs[1])
    ELSE LET half == Len(txs) \div 2
         IN  apply_all(apply_all(w, SubSeq(txs, 1, half)),
                       SubSeq(txs, half + 1, Len(txs)))

\* Blockchain.calculate_state_root: json.dumps with BrainersJSONEncoder encodes
\* Fraction and set only; a Validator or Token value raises TypeError.
state_root_raises(vals, toks) == DOMAIN vals # {} \/ DOMAIN toks # {}

calculate_state_root(acc, vals, toks) == <<acc, vals, toks>>

\* Blockchain.save_block: one row per block and one per transaction of it
save_block(st, block) ==
    [blocks |-> st.blocks \cup {block},
     transactions |-> st.transactions \cup
                         {block.transactions[i].hash : i \in 1..Len(block.transactions)}]

eligible_validators_any_stake(vals) == {a \in DOMAIN vals : vals[a].is_active}

\* Blockchain.select_validator: the validators one of which random.uniform picks
eligible_validators(vals) ==
    {a \in DOMAIN vals : vals[a].stake >= min_stake /\ vals[a].is_active}

-----------------------------------------------------------------------------
(* Genesis                                                                 *)

\* The list with its first two entries exchanged
distributions_exchanged ==
    << <<"Lichiditate", 19, 100>>, <<"Rezerva", 742, 10000>>,
       <<"Rez_stable_coin", 19, 100>>, <<"Investitori_P", 20, 100>>,
       <<"Garantie", 19, 100>>, <<"Farming", 558, 10000>> >>

\* create_initial_distribution: (wallet, numerator, denominator); every wallet
\* is a fresh Wallet() whose address the model names after its category.
distributions ==
    << <<"Rezerva", 742, 10000>>, <<"Lichiditate", 19, 100>>,
       <<"Rez_stable_coin", 19, 100>>, <<"Investitori_P", 20, 100>>,
       <<"Garantie", 19, 100>>, <<"Farming", 558, 10000>> >>

genesis_amount(i) == (total_supply \div distributions[i][3]) * distributions[i][2]

\* The key pairs Wallet() can draw; LocalKey is the draw of the node under
\* study at its first start.
WalletKeys == 1..MaxWalletKeys
LocalKey == 1

\* Wallet.generate_address: a digest of the public key of a freshly generated
\* key pair.  The addresses of the draw LocalKey are named after their
\* category; another draw gives other addresses.
wallet_address(category, key) ==
    IF key = LocalKey THEN category ELSE category \o "#" \o ToString(key)

\* create_initial_distribution with the wallets of draw key, at time time
initial_distribution(key, time) ==
    [i \in 1..Len(distributions) |->
        Transaction(ZERO, wallet_address(distributions[i][1], key), genesis_amount(i),
                    "genesis", 0, BRAINERS, "none", time)]

\* the balances create_initial_distribution credits
initial_accounts(key) ==
    [a \in {wallet_address(distributions[i][1], key) : i \in 1..Len(distributions)} |->
        [t \in {BRAINERS} |->
            genesis_amount(CHOOSE i \in 1..Len(distributions) :
                               wallet_address(distributions[i][1], key) = a)]]

\* create_genesis_block: the block it appends
genesis_block_of(key, time) == Block(0, initial_distribution(key, time), ZERO_HASH, ZERO)

\* the genesis of the node under study: its own draw, at time 0
create_initial_distribution == initial_distribution(LocalKey, 0)

genesis_accounts == initial_accounts(LocalKey)

genesis_total == SumSeq([i \in 1..Len(distributions) |-> genesis_amount(i)])

\* create_genesis_block
genesis_block == Block(0, create_initial_distribution, ZERO_HASH, ZERO)

-----------------------------------------------------------------------------
(* Inputs                                                                  *)

\* The two tasks of BlockchainNode.start that call create_block.
Tasks == {"block_creation_loop", "mempool_processing_loop"}

\* Transactions a peer sends in new_transaction messages (Transaction.from_dict
\* keeps the signature of the message).  Rezerva holds 11130 BRAINERS: it can
\* pay for the stake or for the transfer, not for both.
StakeTx == Transaction("Rezerva", "Rezerva", min_stake, "stake", MIN_FEE, BRAINERS, "good", 1)
TransferTx == Transaction("Rezerva", "Bob", 2000 * BRAINERS_UNIT, "transfer", MIN_FEE, BRAINERS, "good", 2)
RemoveLiquidityTx == Transaction("Rezerva", "0xBrainersDEX", 1 * BRAINERS_UNIT, "remove_liquidity", MIN_FEE, BRAINERS, "good", 3)
ForgedTx == Transaction("Farming", "Bob", 1 * BRAINERS_UNIT, "transfer", MIN_FEE, BRAINERS, "bad", 4)

PeerTxs == {StakeTx, TransferTx, RemoveLiquidityTx, ForgedTx}

\* Staking transactions a peer sends: a stake of 1 BRAINERS, a gift of a
\* validator seat to Bob, and the provisioned validator taking back half a
\* BRAINERS of its stake (which it can pay for once it has earned a reward).
SmallStakeTx == Transaction("Farming", "Farming", 1 * BRAINERS_UNIT, "stake", MIN_FEE, BRAINERS, "good", 5)
GiftTx == Transaction("Rezerva", "Bob", GIFT_VALIDATOR_BURN, "gift_validator", MIN_FEE, BRAINERS, "good", 6)
UnstakeTx == Transaction("Val", "Val", 500 * MIN_FEE, "unstake", MIN_FEE, BRAINERS, "good", 7)

StakingTxs == {SmallStakeTx, GiftTx, UnstakeTx}

\* Token transactions a peer sends: Rezerva creates the token TKN with a supply
\* of 500, then transfers 200 of it to Bob and burns 100 of it.  TokenAddress
\* is the address the token gets when it is created at StartTime.
CreateTokenTx ==
    Transaction("Rezerva", ZERO, 500, "create_token", MIN_FEE, BRAINERS, "good", 8)
        @@ [name |-> "TKN", symbol |-> "TKN"]
TokenAddress == token_generate_address("TKN", "TKN", 500, "Rezerva", StartTime)
TokenTransferTx == Transaction("Rezerva", "Bob", 200, "transfer", MIN_FEE, TokenAddress, "good", 9)
TokenBurnTx == Transaction("Rezerva", ZERO, 100, "burn", MIN_FEE, TokenAddress, "good", 9)

TokenTxs == {CreateTokenTx, TokenTransferTx, TokenBurnTx}

\* A transfer of BRAINERS that carries three times the fee the node would
\* compute, and the transfers a peer sends.
PriorityTransferTx ==
    Transaction("Investitori_P", "Bob", 5 * BRAINERS_UNIT, "transfer", 3 * MIN_FEE, BRAINERS, "good", 11)

TransferTxs == {CreateTokenTx, TokenTransferTx, PriorityTransferTx}

\* Bodies of requests to POST /transaction (sender, recipient, amount, type).
HttpGenesisRequest ==
    [sender |-> ZERO, recipient |-> "Bob", amount |-> 7 * BRAINERS_UNIT, type |-> "genesis"]
HttpTransferRequest ==
    [sender |-> "Garantie", recipient |-> "Bob", amount |-> 1 * BRAINERS_UNIT, type |-> "transfer"]

HttpRequests == {HttpGenesisRequest, HttpTransferRequest}

\* BlockchainAPI.create_transaction builds the transaction itself: unsigned,
\* stamped with the current time, with the fee of calculate_transaction_fee
\* (MIN_FEE, because pending_transactions is always empty).
HttpTx(data, time) ==
    Transaction(data.sender, data.recipient, data.amount, data.type,
                units(calculate_transaction_fee(pending_transactions)),
                BRAINERS, "none", time)

\* The validator registry of the node.  start() leaves it empty, and no
\* operation of the node can then fill it (only an applied stake or
\* gift_validator transaction creates a validator, and only a block commit
\* applies one); the other registry is one an embedding program or a test
\* fixture has put in the public attribute after genesis.
SeedValidators ==
    {EmptyMap, [a \in {"Val"} |-> Validator("Val", min_stake, FALSE)]}

-----------------------------------------------------------------------------
(* Initial state: a node after start(): genesis block committed, both      *)
(* producer tasks scheduled.                                               *)

\* The locals of a create_block call that is not running.
NoFrame == [validator |-> ZERO, index |-> 0]

Init ==
    /\ chain = <<genesis_block>>
    /\ mempool = <<>>
    /\ accounts = genesis_accounts
    /\ validators \in SeedValidators
    /\ state_root = calculate_state_root(genesis_accounts, EmptyMap, EmptyMap)
    /\ task = [t \in Tasks |-> "idle"]
    /\ frame = [t \in Tasks |-> NoFrame]
    /\ relayed = {}
    /\ burned_total = 0
    /\ rewards_issued = 0
    /\ now = StartTime
    /\ tokens = EmptyMap
    /\ pending_transactions = <<>>
    /\ store = save_block(EmptyStore, genesis_block)
    /\ peer_chain = <<>>
    /\ quoted_fee = NoFee
    /\ orders = EmptyMap
    /\ trade_txs = <<>>
    /\ positions = EmptyMap
    /\ oracle_prices = EmptyMap
    /\ tuvs = EmptyMap
    /\ connection = "open"
    /\ sent = NoMessage

-----------------------------------------------------------------------------
(* Mempool admission                                                       *)

\* What the handlers of transactions leave alone.
others == <<tokens, pending_transactions, store, peer_chain, quoted_fee, subsystems>>

\* Blockchain.add_transaction, the balance check: reads
\* accounts[sender][token], which inserts the key.
has_balance(tx) == Bal(accounts, tx.sender, tx.token) >= tx.amount + tx.fee

add_transaction(tx) ==
    IF tx.transaction_type # "genesis" /\ ~has_balance(tx) THEN
        /\ accounts' = Touch(accounts, tx.sender, tx.token)
        /\ mempool' = mempool
    ELSE
        /\ accounts' = IF tx.transaction_type # "genesis"
                       THEN Touch(accounts, tx.sender, tx.token) ELSE accounts
        /\ mempool' = IF verify_transaction(tx) THEN Append(mempool, tx) ELSE mempool

\* process_message, type new_transaction
NewTransaction(tx) ==
    /\ connection = "open"
    /\ Len(mempool) < MaxMempool
    /\ add_transaction(tx)
    /\ UNCHANGED <<chain, validators, state_root, task, frame, relayed,
                   burned_total, rewards_issued, now, others, wire>>

\* BlockchainAPI.create_transaction; the clock has moved on by the next request
HttpCreateTransaction(data) ==
    /\ Len(mempool) < MaxMempool
    /\ now < StartTime + MaxHttpRequests
    /\ add_transaction(HttpTx(data, now))
    /\ now' = now + 1
    /\ UNCHANGED <<chain, validators, state_root, task, frame, relayed,
                   burned_total, rewards_issued, others, wire>>

-----------------------------------------------------------------------------
(* Block production: Blockchain.create_block, run by block_creation_loop   *)
(* and, through process_mempool, by mempool_processing_loop.               *)

Last(s) == s[Len(s)]

\* self.mempool[:]
mempool_whole(mp) == mp

\* self.mempool[:MAX_TRANSACTIONS_PER_BLOCK]
mempool_head(mp) ==
    SubSeq(mp, 1, IF Len(mp) < MAX_TRANSACTIONS_PER_BLOCK THEN Len(mp)
                  ELSE MAX_TRANSACTIONS_PER_BLOCK)

\* self.mempool[MAX_TRANSACTIONS_PER_BLOCK:]
mempool_rest(mp) == SubSeq(mp, MAX_TRANSACTIONS_PER_BLOCK + 1, Len(mp))

next_index_one_based(ch) == Len(ch) + 1

\* index=len(self.chain)
next_index(ch) == Len(ch)

\* previous_hash=self.chain[-1].hash if self.chain else "0" * 64
tip_hash(ch) == IF ch = <<>> THEN ZERO_HASH ELSE Last(ch).hash

\* process_mempool enters create_block only while self.mempool is non-empty;
\* block_creation_loop calls it on every tick.
may_call_create_block(t) ==
    t = "mempool_processing_loop" => mempool # <<>>

\* create_block up to its first suspension: select the validator, assemble the
\* block, apply its transactions, append it, and suspend in save_block.  An
\* exception of apply_transaction leaves create_block and ends the task.  With
\* no eligible validator create_block returns None and nothing changes.
CreateBlockBegin(t) ==
    /\ task[t] = "idle"
    /\ may_call_create_block(t)
    /\ \/ /\ eligible_validators(validators) = {}
          /\ UNCHANGED vars
       \/ \E v \in eligible_validators(validators) :
            LET transactions == mempool_head(mempool)
                new_block == Block(next_index(chain), transactions, tip_hash(chain), v)
                w == apply_all(World(accounts, validators, tokens, burned_total, now),
                               transactions)
            IN  /\ accounts' = w.accounts
                /\ validators' = w.validators
                /\ tokens' = w.tokens
                /\ now' = w.time
                /\ burned_total' = w.burned
                /\ IF w.raised
                   THEN /\ task' = [task EXCEPT ![t] = "raised_apply"]
                        /\ UNCHANGED <<chain, frame>>
                   ELSE /\ chain' = Append(chain, new_block)
                        /\ task' = [task EXCEPT ![t] = "save_block"]
                        /\ frame' = [frame EXCEPT ![t] =
                              [validator |-> v, index |-> new_block.index]]
                /\ mempool' = mempool \o w.sub.admitted
                /\ orders' = w.sub.orders
                /\ trade_txs' = w.sub.trade_txs
                /\ positions' = w.sub.positions
                /\ tuvs' = w.sub.tuvs
                /\ UNCHANGED <<state_root, relayed, rewards_issued,
                               pending_transactions, store, peer_chain, quoted_fee,
                               oracle_prices, wire>>

\* The reward transaction of create_block
reward_tx(v) == Transaction(ZERO, v, calculate_block_reward, "reward", 0, BRAINERS, "none", 0)

\* validator.update_reputation(Fraction(1)); validator.last_block_validated =
\* new_block.index, on the Validator object selected before the suspension.
credit_validator(vals, f) ==
    IF f.validator \notin DOMAIN vals THEN vals
    ELSE [vals EXCEPT ![f.validator] =
              [update_reputation(@, 10) EXCEPT !.last_block_validated = f.index]]

\* create_block after save_block: trim the mempool, apply the reward, update
\* the validator and compute the state root, which raises TypeError whenever a
\* validator is registered; block_creation_loop broadcasts the block that
\* create_block returns.
CreateBlockFinish(t) ==
    /\ task[t] = "save_block"
    /\ LET w == apply_transaction(World(accounts, validators, tokens, burned_total, now),
                                  reward_tx(frame[t].validator))
           vals == credit_validator(w.validators, frame[t])
       IN  /\ mempool' = mempool_rest(mempool)
           /\ accounts' = w.accounts
           /\ validators' = vals
           /\ rewards_issued' = rewards_issued + calculate_block_reward
           /\ store' = save_block(store, chain[frame[t].index + 1])
           /\ IF state_root_raises(vals, tokens)
              THEN /\ task' = [task EXCEPT ![t] = "raised_state_root"]
                   /\ UNCHANGED <<state_root, relayed>>
              ELSE /\ state_root' = calculate_state_root(w.accounts, vals, tokens)
                   /\ task' = [task EXCEPT ![t] = "idle"]
                   /\ relayed' = IF t = "block_creation_loop"
                                 THEN relayed \cup {chain[frame[t].index + 1]}
                                 ELSE relayed
           /\ frame' = [frame EXCEPT ![t] = NoFrame]
           /\ UNCHANGED <<chain, burned_total, now, tokens, pending_transactions,
                          peer_chain, quoted_fee, subsystems, wire>>

\* save_block raises (a failed INSERT or commit of the sqlite store): the
\* exception leaves create_block after the block was appended and ends the task.
SaveBlockFails(t) ==
    /\ task[t] = "save_block"
    /\ task' = [task EXCEPT ![t] = "raised_save_block"]
    /\ frame' = [frame EXCEPT ![t] = NoFrame]
    /\ UNCHANGED <<chain, mempool, accounts, validators, state_root, relayed,
                   burned_total, rewards_issued, now, others, wire>>

-----------------------------------------------------------------------------
(* Blockchain.reindex_blockchain: reset the world state and re-apply the   *)
(* transactions of every block of the chain.  The node never calls it; it  *)
(* is the recovery operation, modelled by the state it would produce.      *)

RECURSIVE chain_transactions(_)
chain_transactions(ch) ==
    IF ch = <<>> THEN <<>> ELSE Head(ch).transactions \o chain_transactions(Tail(ch))

\* the accounts, validators and state_root that reindex_blockchain leaves
\* (state_root keeps its old value when calculate_state_root raises)
reindex_blockchain(ch, old_root) ==
    LET w == apply_all(World(EmptyMap, EmptyMap, EmptyMap, 0, now), chain_transactions(ch)) IN
    [accounts |-> w.accounts, validators |-> w.validators, tokens |-> w.tokens,
     state_root |-> IF w.raised \/ state_root_raises(w.validators, w.tokens) THEN old_root
                    ELSE calculate_state_root(w.accounts, w.validators, w.tokens)]

-----------------------------------------------------------------------------
(* Peer blocks: process_message (type new_block), is_valid_block and       *)
(* sync_with_peer.                                                         *)

\* Blockchain.is_valid_block: "IndexError" when self.chain[block.index - 1]
\* is out of range.
is_valid_block(ch, block) ==
    IF block.index > 0 /\ block.index - 1 >= Len(ch) THEN "IndexError"
    ELSE IF block.index > 0 /\ block.previous_hash # ch[block.index].hash THEN "invalid"
    ELSE IF \E i \in 1..Len(block.transactions) : ~verify_transaction(block.transactions[i])
         THEN "invalid"
    ELSE "valid"

\* Blockchain.sync_with_peer for one block: does it append the block?
sync_appends(ch, block) ==
    block.index > Len(ch) /\ is_valid_block(ch, block) = "valid"

\* Blocks a peer that follows this node's chain sends: its next block (with a
\* signed transfer), a block one further ahead, and a block that does not link
\* to the local tip.
PeerBlocks ==
    { Block(Len(chain), <<TransferTx>>, tip_hash(chain), "Val"),
      Block(Len(chain) + 1, <<>>, <<"tip of the peer">>, "Val"),
      Block(Len(chain), <<>>, <<"another chain">>, "Val") }

\* A block whose message carries another merkle_root than its transactions
\* give: Block.from_dict keeps the merkle_root and the hash of the message.
ForgedBlocks ==
    { [Block(Len(chain), <<TransferTx>>, tip_hash(chain), "Val")
          EXCEPT !.merkle_root = <<"root of other transactions">>] }

\* process_message, type new_block: validate, hand to sync_with_peer, broadcast.
\* An IndexError leaves process_message and closes the connection.
NewBlock(block) ==
    /\ connection = "open"
    /\ Cardinality(relayed) < MaxRelayed
    /\ connection' = IF is_valid_block(chain, block) = "IndexError"
                     THEN "closed" ELSE connection
    /\ IF is_valid_block(chain, block) = "valid"
       THEN LET w == apply_all(World(accounts, validators, tokens, burned_total, now),
                               block.transactions)
            IN  /\ IF sync_appends(chain, block)
                   THEN /\ chain' = Append(chain, block)
                        /\ accounts' = w.accounts
                        /\ validators' = w.validators
                        /\ tokens' = w.tokens
                        /\ now' = w.time
                        /\ burned_total' = w.burned
                        /\ store' = save_block(store, block)
                        /\ mempool' = mempool \o w.sub.admitted
                        /\ orders' = w.sub.orders
                        /\ trade_txs' = w.sub.trade_txs
                        /\ positions' = w.sub.positions
                        /\ tuvs' = w.sub.tuvs
                   ELSE UNCHANGED <<chain, accounts, validators, tokens, now,
                                    burned_total, store, mempool, orders,
                                    trade_txs, positions, tuvs>>
                /\ relayed' = relayed \cup {block}
       ELSE UNCHANGED <<chain, accounts, validators, tokens, now, burned_total,
                        store, relayed, mempool, orders, trade_txs, positions, tuvs>>
    /\ UNCHANGED <<state_root, task, frame, rewards_issued,
                   pending_transactions, peer_chain, quoted_fee, oracle_prices, sent>>

-----------------------------------------------------------------------------

Next ==
    \/ \E tx \in PeerTxs : NewTransaction(tx)
    \/ \E data \in HttpRequests : HttpCreateTransaction(data)
    \/ \E t \in Tasks : CreateBlockBegin(t)
    \/ \E t \in Tasks : CreateBlockFinish(t)
    \/ \E t \in Tasks : SaveBlockFails(t)
    \/ \E block \in PeerBlocks : NewBlock(block)

Spec == Init /\ [][Next]_vars

\* Both producer loops run forever (while True ... await asyncio.sleep), so a
\* step of create_block that stays possible is eventually taken.
LiveSpec ==
    /\ Spec
    /\ \A t \in Tasks : WF_vars(CreateBlockBegin(t)) /\ WF_vars(CreateBlockFinish(t))

\* The node fed with staking transactions.
StakingNext ==
    \/ \E tx \in StakingTxs : NewTransaction(tx)
    \/ \E t \in Tasks : CreateBlockBegin(t)
    \/ \E t \in Tasks : CreateBlockFinish(t)

StakingSpec == Init /\ [][StakingNext]_vars

\* The node fed with token transactions.
TokenNext ==
    \/ \E tx \in TokenTxs : NewTransaction(tx)
    \/ \E t \in Tasks : CreateBlockBegin(t)
    \/ \E t \in Tasks : CreateBlockFinish(t)

TokenSpec == Init /\ [][TokenNext]_vars

-----------------------------------------------------------------------------
(* Synchronisation: process_message, type sync_request.                    *)

\* self.blockchain.chain[last_block+1:], a Python slice: a negative start
\* counts from the end of the list and is clipped at its beginning.
sync_response(ch, last_block) ==
    LET start == last_block + 1
        first == IF start >= 0 THEN start
                 ELSE IF Len(ch) + start >= 0 THEN Len(ch) + start ELSE 0
    IN  SubSeq(ch, first + 1, Len(ch))

\* The values of last_block a peer may send
SyncIndexes == (0 - MaxSyncBack)..(Len(chain) + 1)

\* process_message, type sync_request: answers on the same connection
SyncRequest(last_block) ==
    /\ connection = "open"
    /\ sent' = [type |-> "sync_response", blocks |-> sync_response(chain, last_block)]
    /\ UNCHANGED <<chain, mempool, accounts, validators, state_root, task, frame,
                   relayed, burned_total, rewards_issued, now, others, connection>>

\* The node among peers that send blocks and ask for blocks.
SyncNext ==
    \/ NewTransaction(TransferTx)
    \/ \E t \in Tasks : CreateBlockBegin(t)
    \/ \E t \in Tasks : CreateBlockFinish(t)
    \/ \E block \in PeerBlocks \cup ForgedBlocks : NewBlock(block)
    \/ \E last_block \in SyncIndexes : SyncRequest(last_block)

SyncSpec == Init /\ [][SyncNext]_vars

-----------------------------------------------------------------------------
(* TTF: futures positions, the oracle price and liquidations.  Prices are  *)
(* counted in tenths (PriceUnit) so that Fraction prices such as 9/10 are  *)
(* integers; comparisons of Fractions are cross-multiplied.                *)

\* TTF.calculate_pnl, in tenths
calculate_pnl(position, close_price) ==
    LET price_diff == close_price - position.open_price
        signed == IF position.type = "short" THEN 0 - price_diff ELSE price_diff
    IN  position.amount * signed * position.leverage

\* TTF.should_liquidate: pnl <= -collateral * 80/100
should_liquidate(position, current_price) ==
    calculate_pnl(position, current_price) * position.collateral[2] * 100
        <= 0 - (position.collateral[1] * 80 * PriceUnit)

remove_at(s, i) == SubSeq(s, 1, i - 1) \o SubSeq(s, i + 1, Len(s))

\* The loop of check_liquidations over one list: enumerate() moves on to the
\* next index after every element, while liquidate_position deletes element
\* i from the list that is being iterated.
RECURSIVE check_positions(_, _, _)
check_positions(list, i, current_price) ==
    IF i > Len(list) THEN list
    ELSE IF should_liquidate(list[i], current_price)
         THEN check_positions(remove_at(list, i), i + 1, current_price)
         ELSE check_positions(list, i + 1, current_price)

\* TTF.check_liquidations: the futures of the token
check_liquidations(pos, prices, token_address) ==
    [future_id \in DOMAIN pos |->
        IF futures[future_id].token_address = token_address
        THEN check_positions(pos[future_id], 1, get_oracle_price(prices, token_address))
        ELSE pos[future_id]]

\* TTF.open_position; the open_ttf_position transaction it builds is unsigned
\* and add_transaction turns it down after reading the trader's balance.
OpenPosition(future_id, trader, position_type, amount, leverage) ==
    /\ future_id \in DOMAIN futures
    /\ Len(positions_of(positions, future_id)) < MaxPositions
    /\ Bal(accounts, trader, BRAINERS) * leverage >= amount * BRAINERS_UNIT
    /\ positions' = SetKey(positions, future_id,
          Append(positions_of(positions, future_id),
                 Position(trader, position_type, amount, leverage,
                          get_oracle_price(oracle_prices,
                                           futures[future_id].token_address))))
    /\ accounts' = Touch(accounts, trader, BRAINERS)
    /\ UNCHANGED <<chain, mempool, validators, state_root, task, frame, relayed,
                   burned_total, rewards_issued, now, tokens, pending_transactions,
                   store, peer_chain, quoted_fee, orders, trade_txs, oracle_prices,
                   tuvs, wire>>

\* TTF.update_oracle_price with check_liquidations; every liquidate_position
\* hands an unsigned transaction of the TTF address to add_transaction, which
\* reads that address's balance and turns the transaction down.
UpdateOraclePrice(token_address, new_price) ==
    LET prices == SetKey(oracle_prices, token_address, new_price)
        kept == check_liquidations(positions, prices, token_address)
    IN  /\ oracle_prices' = prices
        /\ positions' = kept
        /\ accounts' = IF kept # positions THEN Touch(accounts, ttf_address, BRAINERS)
                       ELSE accounts
        /\ UNCHANGED <<chain, mempool, validators, state_root, task, frame, relayed,
                       burned_total, rewards_issued, now, tokens, pending_transactions,
                       store, peer_chain, quoted_fee, orders, trade_txs, tuvs, wire>>

\* The node with traders opening positions and an oracle reporting prices.
TtfNext ==
    \/ \E future_id \in DOMAIN futures : \E position_type \in {"long", "short"} :
       \E leverage \in {1, 5} :
          OpenPosition(future_id, "Investitori_P", position_type, 10, leverage)
    \/ \E token_address \in {"TKN", "OTH"} : \E new_price \in OraclePrices :
          UpdateOraclePrice(token_address, new_price)

TtfSpec == Init /\ [][TtfNext]_vars

\* The node fed with transfers of BRAINERS and of a token.
TransferNext ==
    \/ \E tx \in TransferTxs : NewTransaction(tx)
    \/ \E t \in Tasks : CreateBlockBegin(t)
    \/ \E t \in Tasks : CreateBlockFinish(t)

TransferSpec == Init /\ [][TransferNext]_vars

-----------------------------------------------------------------------------
(* DEX: the order book and its matching.  Token amounts and prices are     *)
(* whole numbers; BRAINERS are counted in units of MIN_FEE, and the        *)
(* amounts placed are multiples of 4 so that a half of the 3/1000 fee of   *)
(* a trade at a half price is a whole number of units.                     *)

\* DEX.place_order (no liquidity was added, so trading_start_times is empty):
\* the order is appended, the unsigned place_order transaction is turned down
\* by add_transaction after reading the trader's balance, and match_orders
\* runs.  trade_txs keeps the transactions execute_trade built in this call.
PlaceOrder(token_address, order_type, amount, price, trader) ==
    LET list == Append(orders_of(orders, token_address),
                       Order(trader, order_type, amount, price, now))
        matched == match_orders(token_address, list, Touch(accounts, trader, BRAINERS))
    IN  /\ now < StartTime + MaxOrders
        /\ now' = now + 1
        /\ orders' = SetKey(orders, token_address, matched.orders)
        /\ accounts' = matched.accounts
        /\ trade_txs' = matched.trades
        /\ UNCHANGED <<chain, mempool, validators, state_root, task, frame, relayed,
                       burned_total, rewards_issued, tokens, pending_transactions,
                       store, peer_chain, quoted_fee, positions, oracle_prices,
                       tuvs, wire>>

\* The orders traders place: who buys and who sells, amounts and prices
OrderSides == {<<"Investitori_P", "buy">>, <<"Rezerva", "sell">>, <<"Rezerva", "buy">>}
OrderAmounts == {4, 8}
OrderPrices == {1, 2}

\* The node with traders placing orders for one token.
DexNext ==
    \E side \in OrderSides : \E amount \in OrderAmounts : \E price \in OrderPrices :
        PlaceOrder("TKN", side[2], amount, price, side[1])

DexSpec == Init /\ [][DexNext]_vars

-----------------------------------------------------------------------------
(* TUV: vaults.  Every transaction the TUV methods build is unsigned, so   *)
(* add_transaction turns it down after reading the sender's balance of     *)
(* BRAINERS (the data carry 'token_address', not 'token').                 *)

\* How long the vaults of the model stay locked
LockPeriod == 2

\* The clock values at which the vault methods are called
TuvTimes == StartTime..(StartTime + MaxTuvTime)

\* TUV.create_tuv: records the vault; no balance is changed.
CreateTuv(creator, name, token_address, token_amount, lock_period) ==
    /\ now < StartTime + MaxTuvTime
    /\ now' = now + 1
    /\ tuvs' = SetKey(tuvs, tuv_id_of(creator, name, now),
                      [creator |-> creator, owner |-> creator, name |-> name,
                       token_address |-> token_address, token_amount |-> token_amount,
                       lock_period |-> lock_period, creation_time |-> now])
    /\ accounts' = Touch(accounts, creator, BRAINERS)
    /\ UNCHANGED <<chain, mempool, validators, state_root, task, frame, relayed,
                   burned_total, rewards_issued, tokens, pending_transactions,
                   store, peer_chain, quoted_fee, orders, trade_txs, positions,
                   oracle_prices, wire>>

\* TUV.transfer_tuv
TransferTuv(tuv_id, from_address, to_address) ==
    /\ IF tuv_id \notin DOMAIN tuvs \/ tuvs[tuv_id].owner # from_address
       THEN UNCHANGED <<tuvs, accounts>>
       ELSE /\ tuvs' = [tuvs EXCEPT ![tuv_id].owner = to_address]
            /\ accounts' = Touch(accounts, from_address, BRAINERS)
    /\ UNCHANGED <<chain, mempool, validators, state_root, task, frame, relayed,
                   burned_total, rewards_issued, now, tokens, pending_transactions,
                   store, peer_chain, quoted_fee, orders, trade_txs, positions,
                   oracle_prices, wire>>

\* TUV.claim_tuv called when the clock shows time
ClaimTuv(tuv_id, claimer, time) ==
    /\ time >= now
    /\ now' = time
    /\ IF tuv_id \notin DOMAIN tuvs \/ tuvs[tuv_id].owner # claimer
       THEN UNCHANGED <<tuvs, accounts>>
       ELSE IF time < tuvs[tuv_id].creation_time + tuvs[tuv_id].lock_period
       THEN UNCHANGED <<tuvs, accounts>>
       ELSE /\ tuvs' = [id \in (DOMAIN tuvs) \ {tuv_id} |-> tuvs[id]]
            /\ accounts' = Touch(accounts, tuv_address, BRAINERS)
    /\ UNCHANGED <<chain, mempool, validators, state_root, task, frame, relayed,
                   burned_total, rewards_issued, tokens, pending_transactions,
                   store, peer_chain, quoted_fee, orders, trade_txs, positions,
                   oracle_prices, wire>>

\* Who creates, receives and claims vaults, and the vault ids they name
TuvUsers == {"Rezerva", "Bob"}
TuvIds == {tuv_id_of("Rezerva", "vault", time) : time \in TuvTimes}

\* The node with users creating, transferring and claiming vaults of 500 TKN.
TuvNext ==
    \/ CreateTuv("Rezerva", "vault", "TKN", 500, LockPeriod)
    \/ \E tuv_id \in TuvIds : \E to_address \in TuvUsers :
          TransferTuv(tuv_id, "Rezerva", to_address)
    \/ \E tuv_id \in TuvIds : \E claimer \in TuvUsers : \E time \in TuvTimes :
          ClaimTuv(tuv_id, claimer, time)

TuvSpec == Init /\ [][TuvNext]_vars

-----------------------------------------------------------------------------
(* Block assembly on short and on overfull mempools.                       *)

\* Farming takes back half a BRAINERS of a stake, and a transfer of one
\* MIN_FEE: transactions whose effect depends on their order, and one small
\* enough to be applied MAX_TRANSACTIONS_PER_BLOCK times.
FarmingUnstakeTx ==
    Transaction("Farming", "Farming", 500 * MIN_FEE, "unstake", MIN_FEE, BRAINERS, "good", 12)
DustTx == Transaction("Rezerva", "Bob", MIN_FEE, "transfer", MIN_FEE, BRAINERS, "good", 13)

AssemblyTxs == {SmallStakeTx, FarmingUnstakeTx, DustTx}

\* The mempool after one new_transaction message more than a block takes
overfull_mempool == [i \in 1..(MAX_TRANSACTIONS_PER_BLOCK + 1) |-> DustTx]

\* A started node with a provisioned validator whose mempool is empty or has
\* filled up beyond a block while no block was produced.
AssemblyInit ==
    /\ chain = <<genesis_block>>
    /\ mempool \in {<<>>, overfull_mempool}
    /\ accounts = genesis_accounts
    /\ validators \in SeedValidators \ {EmptyMap}
    /\ state_root = calculate_state_root(genesis_accounts, EmptyMap, EmptyMap)
    /\ task = [t \in Tasks |-> "idle"]
    /\ frame = [t \in Tasks |-> NoFrame]
    /\ relayed = {}
    /\ burned_total = 0
    /\ rewards_issued = 0
    /\ now = StartTime
    /\ tokens = EmptyMap
    /\ pending_transactions = <<>>
    /\ store = save_block(EmptyStore, genesis_block)
    /\ peer_chain = <<>>
    /\ quoted_fee = NoFee
    /\ orders = EmptyMap
    /\ trade_txs = <<>>
    /\ positions = EmptyMap
    /\ oracle_prices = EmptyMap
    /\ tuvs = EmptyMap
    /\ connection = "open"
    /\ sent = NoMessage

AssemblyNext ==
    \/ \E tx \in AssemblyTxs : NewTransaction(tx)
    \/ \E t \in Tasks : CreateBlockBegin(t)
    \/ \E t \in Tasks : CreateBlockFinish(t)

AssemblySpec == AssemblyInit /\ [][AssemblyNext]_vars

-----------------------------------------------------------------------------
(* Unstaking over the peer protocol.                                       *)

\* Farming asks for 2 BRAINERS of stake back, more than the 1 BRAINERS that
\* SmallStakeTx stakes; the message does not pass through unstake_tokens.
OverUnstakeTx ==
    Transaction("Farming", "Farming", 2 * BRAINERS_UNIT, "unstake", MIN_FEE, BRAINERS, "good", 14)

UnstakeTxs == {SmallStakeTx, OverUnstakeTx}

\* The node fed with a small stake and a larger unstake of the same account.
UnstakeNext ==
    \/ \E tx \in UnstakeTxs : NewTransaction(tx)
    \/ \E t \in Tasks : CreateBlockBegin(t)
    \/ \E t \in Tasks : CreateBlockFinish(t)

UnstakeSpec == Init /\ [][UnstakeNext]_vars

-----------------------------------------------------------------------------
(* A validator that unstakes below min_stake and stakes again.             *)

\* Rezerva takes 2 BRAINERS of its stake back, and later stakes them again.
RezervaUnstakeTx ==
    Transaction("Rezerva", "Rezerva", 2 * BRAINERS_UNIT, "unstake", MIN_FEE, BRAINERS, "good", 15)
RezervaRestakeTx ==
    Transaction("Rezerva", "Rezerva", 2 * BRAINERS_UNIT, "stake", MIN_FEE, BRAINERS, "good", 16)

RestakeTxs == {StakeTx, RezervaUnstakeTx, RezervaRestakeTx}

\* The node fed with a stake of min_stake, a small unstake and a small stake.
RestakeNext ==
    \/ \E tx \in RestakeTxs : NewTransaction(tx)
    \/ \E t \in Tasks : CreateBlockBegin(t)
    \/ \E t \in Tasks : CreateBlockFinish(t)

RestakeSpec == Init /\ [][RestakeNext]_vars

-----------------------------------------------------------------------------
(* Token creation: Blockchain.create_token and a create_token message.     *)

TokenCreators == {"Rezerva", "Bob"}

\* Blockchain.create_token: the transaction is built without a signature; on
\* success of add_transaction a Token is registered at once and its address is
\* returned, otherwise None is returned.
CreateToken(creator, name, symbol, supply) ==
    LET fee == units(calculate_transaction_fee(pending_transactions))
        create_token_tx ==
            Transaction(creator, ZERO, supply, "create_token", fee, BRAINERS, "none", now)
                @@ [name |-> name, symbol |-> symbol]
        success == has_balance(create_token_tx) /\ verify_transaction(create_token_tx)
        address == token_generate_address(name, symbol, supply, creator, now)
    IN  /\ Len(mempool) < MaxMempool
        /\ add_transaction(create_token_tx)
        /\ tokens' = IF success
                     THEN SetKey(tokens, address, Token(name, symbol, supply, creator, address))
                     ELSE tokens
        /\ UNCHANGED <<chain, validators, state_root, task, frame, relayed,
                       burned_total, rewards_issued, now, pending_transactions,
                       store, peer_chain, quoted_fee, subsystems, wire>>

\* A create_token transaction is in the mempool or in a block
create_token_requested ==
    \/ \E i \in 1..Len(mempool) : mempool[i].transaction_type = "create_token"
    \/ \E i \in 1..Len(chain) :
           \E j \in 1..Len(chain[i].transactions) :
               chain[i].transactions[j].transaction_type = "create_token"

\* process_message, type new_transaction: the one create_token request of a peer
CreateTokenMessage ==
    /\ ~create_token_requested
    /\ NewTransaction(CreateTokenTx)

\* The node asked once, by a peer, to create the token TKN, next to calls of
\* create_token and transfers of BRAINERS.
CreateTokenNext ==
    \/ \E creator \in TokenCreators : CreateToken(creator, "TKN", "TKN", 500)
    \/ CreateTokenMessage
    \/ NewTransaction(PriorityTransferTx)
    \/ \E t \in Tasks : CreateBlockBegin(t)
    \/ \E t \in Tasks : CreateBlockFinish(t)

CreateTokenSpec == Init /\ [][CreateTokenNext]_vars

-----------------------------------------------------------------------------
(* DEX: orders of any amount.  place_order does not look at the amount, and *)
(* the place_order transaction it builds carries amount Fraction(0), which  *)
(* apply_transaction would hand back to place_order as the order's amount.  *)

AnyOrderAmounts == OrderAmounts \cup {0}

\* The node with traders placing orders for one token, empty orders included.
AnyOrderNext ==
    \E side \in OrderSides : \E amount \in AnyOrderAmounts : \E price \in OrderPrices :
        PlaceOrder("TKN", side[2], amount, price, side[1])

AnyOrderSpec == Init /\ [][AnyOrderNext]_vars

-----------------------------------------------------------------------------
(* Committing transactions of the sub-ledgers.                             *)

\* Correctly signed transactions of the DEX, TTF and TUV kinds, as a peer
\* sends them: an order to buy and one to sell 4 TKN at price 1, a position
\* of 10 BRAINERS at leverage 5, a vault of 500 TKN, liquidity of 100
\* BRAINERS and a future on TKN.
BuyOrderTx ==
    Transaction("Investitori_P", dex_address, 4, "place_order", MIN_FEE, BRAINERS, "good", 17)
        @@ [token_address |-> "TKN", order_type |-> "buy", price |-> 1]
SellOrderTx ==
    Transaction("Rezerva", dex_address, 4, "place_order", MIN_FEE, BRAINERS, "good", 18)
        @@ [token_address |-> "TKN", order_type |-> "sell", price |-> 1]
OpenPositionTx ==
    Transaction("Investitori_P", ttf_address, 10 * BRAINERS_UNIT, "open_ttf_position",
                MIN_FEE, BRAINERS, "good", 19)
        @@ [future_id |-> "TTF-TKN", position_type |-> "long", leverage |-> 5]
CreateTuvTx ==
    Transaction("Rezerva", tuv_address, 500, "create_tuv", MIN_FEE, BRAINERS, "good", 20)
        @@ [name |-> "vault", token_address |-> "TKN", lock_period |-> LockPeriod]
AddLiquidityTx ==
    Transaction("Rezerva", dex_address, 100 * BRAINERS_UNIT, "add_liquidity",
                MIN_FEE, BRAINERS, "good", 21)
        @@ [token_address |-> "TKN", token_amount |-> 100, lock_time |-> 0]
CreateTtfTx ==
    Transaction("Rezerva", ttf_address, 0, "create_ttf", MIN_FEE, BRAINERS, "good", 22)
        @@ [token_address |-> "TKN"]

SubledgerTxs ==
    {BuyOrderTx, SellOrderTx, OpenPositionTx, CreateTuvTx, AddLiquidityTx, CreateTtfTx,
     RemoveLiquidityTx}

\* No producer has been in create_block yet
production_not_started ==
    /\ \A t \in Tasks : task[t] = "idle"
    /\ Len(chain) = 1

\* process_message, type new_transaction, for the clients that submit before
\* the producers run and not afterwards
SubmitBeforeProduction(tx) ==
    /\ production_not_started
    /\ NewTransaction(tx)

SubledgerNext ==
    \/ \E tx \in SubledgerTxs : SubmitBeforeProduction(tx)
    \/ \E t \in Tasks : CreateBlockBegin(t)
    \/ \E t \in Tasks : CreateBlockFinish(t)

SubledgerSpec == Init /\ [][SubledgerNext]_vars

-----------------------------------------------------------------------------
(* Start-up: BlockchainNode.start on a new Blockchain object.              *)

\* Blockchain.__init__ followed by initialize_database (which keeps the tables
\* it finds) and create_genesis_block, with the wallets of draw key; the tasks
\* of the previous process are gone.
Start(key) ==
    LET block == genesis_block_of(key, now) IN
    /\ chain' = <<block>>
    /\ mempool' = <<>>
    /\ accounts' = initial_accounts(key)
    /\ validators' = EmptyMap
    /\ tokens' = EmptyMap
    /\ pending_transactions' = <<>>
    /\ store' = save_block(store, block)
    /\ state_root' = calculate_state_root(initial_accounts(key), EmptyMap, EmptyMap)
    /\ task' = [t \in Tasks |-> "idle"]
    /\ frame' = [t \in Tasks |-> NoFrame]
    /\ burned_total' = 0
    /\ rewards_issued' = 0
    /\ orders' = EmptyMap
    /\ trade_txs' = <<>>
    /\ positions' = EmptyMap
    /\ oracle_prices' = EmptyMap
    /\ tuvs' = EmptyMap
    /\ UNCHANGED <<relayed, now, peer_chain, quoted_fee, wire>>

\* The node that is stopped and started again on the same store.
RestartNext ==
    \/ \E tx \in PeerTxs : NewTransaction(tx)
    \/ \E t \in Tasks : CreateBlockBegin(t)
    \/ \E t \in Tasks : CreateBlockFinish(t)
    \/ \E key \in WalletKeys : Start(key)

RestartSpec == Init /\ [][RestartNext]_vars

\* The times at which a node may run its genesis.
GenesisTimes == StartTime..(StartTime + MaxGenesisDelay)

\* Another node of the same chain runs start(): the chain it then holds.
PeerStart(key, time) ==
    /\ peer_chain = <<>>
    /\ peer_chain' = <<genesis_block_of(key, time)>>
    /\ UNCHANGED <<chain, mempool, accounts, validators, state_root, task, frame,
                   relayed, burned_total, rewards_issued, now, tokens,
                   pending_transactions, store, quoted_fee, subsystems, wire>>

\* Two nodes before start(): the Blockchain object as __init__ leaves it, an
\* empty store.
GenesisInit ==
    /\ chain = <<>>
    /\ mempool = <<>>
    /\ accounts = EmptyMap
    /\ validators = EmptyMap
    /\ state_root = NoRoot
    /\ task = [t \in Tasks |-> "idle"]
    /\ frame = [t \in Tasks |-> NoFrame]
    /\ relayed = {}
    /\ burned_total = 0
    /\ rewards_issued = 0
    /\ now \in GenesisTimes
    /\ tokens = EmptyMap
    /\ pending_transactions = <<>>
    /\ store = EmptyStore
    /\ peer_chain = <<>>
    /\ quoted_fee = NoFee
    /\ orders = EmptyMap
    /\ trade_txs = <<>>
    /\ positions = EmptyMap
    /\ oracle_prices = EmptyMap
    /\ tuvs = EmptyMap
    /\ connection = "open"
    /\ sent = NoMessage

GenesisNext ==
    \/ \E key \in WalletKeys : Start(key)
    \/ \E key \in WalletKeys : \E time \in GenesisTimes : PeerStart(key, time)

GenesisSpec == GenesisInit /\ [][GenesisNext]_vars

-----------------------------------------------------------------------------
(* Fees: calculate_transaction_fee as the handlers call it.                *)

\* The mempool after d new_transaction messages with the same transfer
deep_mempool(d) == [i \in 1..d |-> TransferTx]

FeeDepths == {FeeDepthStep * i : i \in 0..MaxDepthSteps}

\* A started node whose mempool has filled up while no block was produced.
FeeInit ==
    /\ chain = <<genesis_block>>
    /\ mempool \in {deep_mempool(d) : d \in FeeDepths}
    /\ accounts = genesis_accounts
    /\ validators \in SeedValidators
    /\ state_root = calculate_state_root(genesis_accounts, EmptyMap, EmptyMap)
    /\ task = [t \in Tasks |-> "idle"]
    /\ frame = [t \in Tasks |-> NoFrame]
    /\ relayed = {}
    /\ burned_total = 0
    /\ rewards_issued = 0
    /\ now = StartTime
    /\ tokens = EmptyMap
    /\ pending_transactions = <<>>
    /\ store = save_block(EmptyStore, genesis_block)
    /\ peer_chain = <<>>
    /\ quoted_fee = NoFee
    /\ orders = EmptyMap
    /\ trade_txs = <<>>
    /\ positions = EmptyMap
    /\ oracle_prices = EmptyMap
    /\ tuvs = EmptyMap
    /\ connection = "open"
    /\ sent = NoMessage

\* fee=self.calculate_transaction_fee(amount), as transfer_tokens, stake_tokens
\* and the HTTP endpoint compute it; the fee computed last is kept.
CalculateTransactionFee ==
    /\ quoted_fee' = calculate_transaction_fee(pending_transactions)
    /\ UNCHANGED <<chain, mempool, accounts, validators, state_root, task, frame,
                   relayed, burned_total, rewards_issued, now, tokens,
                   pending_transactions, store, peer_chain, subsystems, wire>>

FeeNext == CalculateTransactionFee

FeeSpec == FeeInit /\ [][FeeNext]_vars

-----------------------------------------------------------------------------
(* Properties                                                              *)

Range(s) == {s[i] : i \in 1..Len(s)}

\* C1: at every position i >= 1 of the chain, the block's index is i and its
\* previous_hash is the hash of the block before it, with create_block run by
\* both producer loops and peer blocks handed to sync_with_peer.
C1_ChainLinked ==
    \A i \in 2..Len(chain) :
        /\ chain[i].index = i - 1
        /\ chain[i].previous_hash = chain[i - 1].hash

\* both loops have a commit in flight, two blocks were produced on top of
\* genesis and a peer block has been handled
C1_BothLoopsCommitted ==
    /\ Len(chain) = 3
    /\ \A t \in Tasks : task[t] = "save_block"
    /\ relayed # {}

sum_balances ==
    SumOver(DOMAIN accounts \ {ZERO},
            [a \in DOMAIN accounts \ {ZERO} |-> Bal(accounts, a, BRAINERS)])

sum_stakes == SumOver(DOMAIN validators, [a \in DOMAIN validators |-> validators[a].stake])

\* the stake of the validator the registry was provisioned with
provisioned_stake == IF "Val" \in DOMAIN validators THEN min_stake ELSE 0

C6_NoLateGenesis ==
    /\ \A i \in 1..Len(mempool) : mempool[i].transaction_type # "genesis"
    /\ \A i \in 2..Len(chain) :
          \A j \in 1..Len(chain[i].transactions) :
              chain[i].transactions[j].transaction_type # "genesis"

\* C7: with no commit in flight, reindex_blockchain yields the accounts, the
\* validators and the state_root that the node holds.
C7_ReindexReproducesState ==
    (\A t \in Tasks : task[t] # "save_block") =>
        LET r == reindex_blockchain(chain, state_root) IN
        /\ r.accounts = accounts
        /\ r.validators = validators
        /\ r.state_root = state_root

\* C8: from a node without validators, a stake of 10000 BRAINERS waiting in the
\* mempool is eventually applied and its sender becomes an active validator.
C8_StakeLeadsToValidator ==
    (DOMAIN validators = {} /\ StakeTx \in Range(mempool))
        ~> ("Rezerva" \in DOMAIN validators /\ validators["Rezerva"].is_active)

\* a block whose index is the local chain length, which links to the local tip
\* and whose transactions all verify
valid_next_block(block) ==
    /\ block.index = Len(chain)
    /\ block.previous_hash = tip_hash(chain)
    /\ \A i \in 1..Len(block.transactions) : verify_transaction(block.transactions[i])

\* C9: a new_block message carrying a valid next block appends it to the chain
\* and applies its transactions to the world state.
C9_PeerBlockAppended ==
    [][\A block \in PeerBlocks :
          (valid_next_block(block) /\ NewBlock(block)) =>
              /\ chain' = Append(chain, block)
              /\ accounts' = apply_all(World(accounts, validators, tokens, burned_total, now),
                                       block.transactions).accounts]_vars

\* C10: the mempool never holds two transactions with the same hash.
C10_MempoolDeduplicated ==
    \A i, j \in 1..Len(mempool) : i < j => mempool[i].hash # mempool[j].hash

token_holdings(T) ==
    SumOver(DOMAIN accounts, [a \in DOMAIN accounts |-> Bal(accounts, a, T)])

C13_ProducerWasEligible ==
    [][/\ Len(chain') = Len(chain) + 1 =>
             LET v == Last(chain').validator IN
             /\ v \in DOMAIN validators
             /\ validators[v].is_active
             /\ validators[v].stake >= min_stake
       /\ \A t \in Tasks :
             (/\ CreateBlockBegin(t)
              /\ ~\E a \in DOMAIN validators :
                     validators[a].is_active /\ validators[a].stake >= min_stake)
             => UNCHANGED <<chain, mempool, accounts, validators, tokens>>]_vars

\* two blocks were produced, the second one while Bob held a gifted seat with
\* a stake of 6000
C13_ProducedBesideGiftedSeat ==
    /\ Len(chain) = 3
    /\ GiftTx \in Range(chain[2].transactions)
    /\ "Bob" \in DOMAIN validators
    /\ chain[3].validator = "Val"

C20_RelayOnlyAccepted ==
    [][\A block \in PeerBlocks :
          (NewBlock(block) /\ block \in relayed') => chain' = Append(chain, block)]_vars

\* C17: a node that starts on a store which already holds blocks creates no
\* new genesis block, and its chain after start-up is made of the stored blocks.
C17_GenesisOnlyOnEmptyStore ==
    [][\A key \in WalletKeys :
          (Start(key) /\ store.blocks # {}) =>
              /\ store'.blocks = store.blocks
              /\ Range(chain') = store.blocks]_vars

\* C18: two nodes that ran genesis independently hold the same genesis block:
\* the same recipients and amounts, the same block hash.
C18_SameGenesis ==
    (chain # <<>> /\ peer_chain # <<>>) =>
        /\ chain[1].hash = peer_chain[1].hash
        /\ \A i \in 1..Len(chain[1].transactions) :
              /\ chain[1].transactions[i].recipient = peer_chain[1].transactions[i].recipient
              /\ chain[1].transactions[i].amount = peer_chain[1].transactions[i].amount

\* C19: the fee computed is MIN_FEE * (3/2)^floor(d/1000) clamped to
\* [MIN_FEE, MAX_FEE], d being the number of transactions waiting in the
\* mempool; it exceeds MIN_FEE once 1000 transactions are waiting.
C19_FeeFollowsDepth ==
    quoted_fee # NoFee =>
        /\ quoted_fee = calculate_transaction_fee(mempool)
        /\ Len(mempool) >= 1000 => quoted_fee[1] > MIN_FEE * quoted_fee[2]

\* C21: a new_block whose index is more than one ahead of the local tip is not
\* appended, makes the node send a sync_request, and leaves the connection
\* open for further messages.
C21_FarAheadBlockTriggersSync ==
    [][\A block \in PeerBlocks :
          NewBlock(block) /\ block.index > Len(chain)
             => /\ chain' = chain
                /\ sent'.type = "sync_request"
                /\ connection' = "open"]_vars

\* C22: for every integer last_block the sync_response holds exactly the
\* blocks of the local chain with index greater than last_block, in chain
\* order.
blocks_after(ch, last_block) ==
    SelectSeq(ch, LAMBDA block : block.index > last_block)

not_liquidated(list, current_price) ==
    SelectSeq(list, LAMBDA position : ~should_liquidate(position, current_price))

C23_AllLiquidatablePositionsDeleted ==
    [][\A token_address \in {"TKN", "OTH"} : \A new_price \in OraclePrices :
          UpdateOraclePrice(token_address, new_price)
             => \A future_id \in DOMAIN positions :
                   positions'[future_id] =
                      IF futures[future_id].token_address = token_address
                      THEN not_liquidated(positions[future_id], new_price)
                      ELSE positions[future_id]]_vars

\* C24: applying a transfer of amount a with carried fee f of token t from A
\* to B (A # B) takes a + f of t from A, gives a of t to B, with the fee the
\* transaction carries, and changes no other balance, no validator and no
\* token, so the balances of t add up to f less than before.
is_transfer_block(mp) ==
    /\ Len(mempool_head(mp)) = 1
    /\ mp[1].transaction_type = "transfer"
    /\ mp[1].sender # mp[1].recipient

C24_TransferFrameEffect ==
    [][\A t \in Tasks :
          /\ CreateBlockBegin(t)
          /\ eligible_validators(validators) # {}
          /\ is_transfer_block(mempool)
          => LET tx == mempool[1] IN
             /\ Bal(accounts', tx.sender, tx.token)
                   = Bal(accounts, tx.sender, tx.token) - (tx.amount + tx.fee)
             /\ Bal(accounts', tx.recipient, tx.token)
                   = Bal(accounts, tx.recipient, tx.token) + tx.amount
             /\ \A a \in (DOMAIN accounts) \cup (DOMAIN accounts') :
                \A tok \in {BRAINERS, TokenAddress} :
                    ~(a \in {tx.sender, tx.recipient} /\ tok = tx.token)
                       => Bal(accounts', a, tok) = Bal(accounts, a, tok)
             /\ validators' = validators
             /\ tokens' = tokens
             /\ token_holdings(tx.token)' = token_holdings(tx.token) - tx.fee]_vars

\* C24, witness: a block holding only the token transfer was committed after
\* the block that created the token, and Bob holds the transferred amount.
C24_TokenTransferCommitted ==
    /\ \E i \in 1..Len(chain) : chain[i].transactions = <<TokenTransferTx>>
    /\ Bal(accounts, "Bob", TokenAddress) = TokenTransferTx.amount

\* C25: create_genesis_block on a fresh node leaves a chain of exactly one
\* block with index 0 and previous_hash of 64 zeros, holding six genesis
\* transactions in the order Reserve, Liquidity, Stablecoin-Reserve, Investor,
\* Guarantee, Farming; exactly six accounts hold BRAINERS, the initial supply
\* times 742/10000, 19/100, 19/100, 20/100, 19/100 and 558/10000, which is
\* 9000/10000 of the initial supply in total.
treasury_wallets ==
    <<"Rezerva", "Lichiditate", "Rez_stable_coin", "Investitori_P", "Garantie", "Farming">>

treasury_shares ==
    << <<742, 10000>>, <<19, 100>>, <<19, 100>>, <<20, 100>>, <<19, 100>>, <<558, 10000>> >>

share_of_supply(i) == (total_supply \div treasury_shares[i][2]) * treasury_shares[i][1]

holders(acc) == {a \in DOMAIN acc : Bal(acc, a, BRAINERS) # 0}

genesis_as_stated(ten_thousandths) ==
    \A key \in WalletKeys :
          Start(key) /\ store = EmptyStore
             => /\ Len(chain') = 1
                /\ chain'[1].index = 0
                /\ chain'[1].previous_hash = ZERO_HASH
                /\ Len(chain'[1].transactions) = 6
                /\ \A i \in 1..6 :
                      LET tx == chain'[1].transactions[i] IN
                      /\ tx.transaction_type = "genesis"
                      /\ tx.recipient = wallet_address(treasury_wallets[i], key)
                      /\ tx.amount = share_of_supply(i)
                      /\ Bal(accounts', tx.recipient, BRAINERS) = share_of_supply(i)
                /\ Cardinality(holders(accounts')) = 6
                /\ SumOver(holders(accounts'),
                           [a \in holders(accounts') |-> Bal(accounts', a, BRAINERS)])
                      = (total_supply \div 10000) * ten_thousandths

C25_GenesisDistribution == [][genesis_as_stated(9000)]_vars

\* C25, witness: a node that ran its genesis on an empty store, with wallets
\* of another draw than the first.
C25_FreshNodeStarted ==
    /\ Len(chain) = 1
    /\ Cardinality(store.blocks) = 1
    /\ Cardinality(holders(accounts)) = 6
    /\ "Rezerva" \notin DOMAIN accounts

\* C25 as stated: the six balances are 9998/10000 of the initial supply in
\* total.
C25_GenesisDistributionAsStated == [][genesis_as_stated(9998)]_vars

\* C26: each match between the best buy order (price pb) and the best sell
\* order (price ps <= pb) trades q = min(buy.amount, sell.amount) at price
\* (pb + ps)/2 and, with fee = q * price * 3/1000, gives the buyer q of the
\* token and takes q*price + fee/2 BRAINERS from them, takes q of the token
\* from the seller and gives them q*price - fee/2 BRAINERS; each trade changes
\* the balances once.  Checked at every place_order: the first trade is the
\* one between the best orders of the book, every trade carries that fee, and
\* the balances move by the sum of the trades, with BRAINERS doubled so that
\* fee/2 needs no division.
best_index(list, reverse) ==
    CHOOSE i \in 1..Len(list) :
        \A j \in 1..Len(list) :
            \/ (reverse /\ list[j].price < list[i].price)
            \/ (~reverse /\ list[j].price > list[i].price)
            \/ (list[j].price = list[i].price /\ j >= i)

token_delta(tr, a) ==
    (IF a = tr.buyer THEN tr.token_amount ELSE 0)
        - (IF a = tr.seller THEN tr.token_amount ELSE 0)

twice_brainers_delta(tr, a) ==
    (IF a = tr.seller THEN 2 * tr.brainers_amount - tr.fee ELSE 0)
        - (IF a = tr.buyer THEN 2 * tr.brainers_amount + tr.fee ELSE 0)

trades_as_stated(side, amount, price) ==
    LET list == Append(orders_of(orders, "TKN"), Order(side[1], side[2], amount, price, now))
        buys == SelectSeq(list, LAMBDA o : o.type = "buy")
        sells == SelectSeq(list, LAMBDA o : o.type = "sell")
        crossing == \E i \in 1..Len(buys) : \E j \in 1..Len(sells) :
                        buys[i].price >= sells[j].price
    IN  /\ crossing <=> trade_txs' # <<>>
        /\ crossing =>
              LET buy == buys[best_index(buys, TRUE)]
                  sell == sells[best_index(sells, FALSE)]
                  q == IF buy.amount <= sell.amount THEN buy.amount ELSE sell.amount
                  tr == trade_txs'[1]
              IN  /\ tr.buyer = buy.trader
                  /\ tr.seller = sell.trader
                  /\ tr.token_amount = q
                  /\ 2 * tr.brainers_amount = q * (buy.price + sell.price) * BRAINERS_UNIT
        /\ \A i \in 1..Len(trade_txs') :
              1000 * trade_txs'[i].fee = 3 * trade_txs'[i].brainers_amount
        /\ \A a \in DOMAIN accounts' :
              /\ Bal(accounts', a, "TKN") - Bal(accounts, a, "TKN")
                    = SumSeq([i \in 1..Len(trade_txs') |-> token_delta(trade_txs'[i], a)])
              /\ 2 * (Bal(accounts', a, BRAINERS) - Bal(accounts, a, BRAINERS))
                    = SumSeq([i \in 1..Len(trade_txs') |->
                                 twice_brainers_delta(trade_txs'[i], a)])

C27_VaultLifecycle ==
    [][\A tuv_id \in DOMAIN tuvs : \A claimer \in TuvUsers : \A time \in TuvTimes :
          ClaimTuv(tuv_id, claimer, time)
             => LET tuv == tuvs[tuv_id] IN
                IF tuv.owner # claimer \/ time < tuv.creation_time + tuv.lock_period
                THEN tuvs' = tuvs
                ELSE /\ tuv_id \notin DOMAIN tuvs'
                     /\ Bal(accounts', claimer, tuv.token_address)
                           = Bal(accounts, claimer, tuv.token_address) + tuv.token_amount]_vars

\* C28: for every block of the chain, and for every block taken from a peer
\* message and found valid, the Merkle root recomputed from the block's
\* transactions equals the block's stored merkle_root.
C28_MerkleRootMatches ==
    \A block \in Range(chain) \cup relayed :
        block.merkle_root = calculate_merkle_root(block.transactions)

\* C29: each produced block holds exactly the first min(n, MAX_TRANSACTIONS_
\* PER_BLOCK) transactions of the mempool as it was when the block was
\* assembled (n its length), in admission order, and these transactions are
\* applied to the world state in that order.
RECURSIVE in_admission_order(_, _, _, _)
in_admission_order(w, mp, first, last) ==
    IF first > last \/ w.raised THEN w
    ELSE IF first = last THEN apply_transaction(w, mp[first])
    ELSE LET middle == (first + last) \div 2
         IN  in_admission_order(in_admission_order(w, mp, first, middle),
                                mp, middle + 1, last)

C29_BlockIsMempoolPrefix ==
    [][\A t \in Tasks :
          CreateBlockBegin(t) /\ chain' # chain
             => LET n == Len(mempool)
                    k == IF n < MAX_TRANSACTIONS_PER_BLOCK THEN n
                         ELSE MAX_TRANSACTIONS_PER_BLOCK
                    block == chain'[Len(chain')]
                    w == in_admission_order(
                             World(accounts, validators, tokens, burned_total, now),
                             mempool, 1, k)
                IN  /\ chain' = Append(chain, block)
                    /\ Len(block.transactions) = k
                    /\ \A i \in 1..k : block.transactions[i] = mempool[i]
                    /\ accounts' = w.accounts
                    /\ validators' = w.validators
                    /\ tokens' = w.tokens]_vars

\* C29, witness: a block of MAX_TRANSACTIONS_PER_BLOCK transactions was cut
\* from a longer mempool, and the transaction left over is still waiting.
C29_FullBlockProduced ==
    /\ \E i \in 1..Len(chain) : Len(chain[i].transactions) = MAX_TRANSACTIONS_PER_BLOCK
    /\ Len(mempool) = 1
    /\ Bal(accounts, "Bob", BRAINERS) >= MAX_TRANSACTIONS_PER_BLOCK * MIN_FEE

C34_RejectionLeavesAccounts ==
    [][\A tx \in StakingTxs :
          NewTransaction(tx) /\ mempool' = mempool => accounts' = accounts]_vars

C38_OpenPositionLocksCollateral ==
    [][\A future_id \in DOMAIN futures : \A position_type \in {"long", "short"} :
       \A leverage \in {1, 5} :
          OpenPosition(future_id, "Investitori_P", position_type, 10, leverage)
             => Bal(accounts', "Investitori_P", BRAINERS) =
                   Bal(accounts, "Investitori_P", BRAINERS)
                      - (10 * BRAINERS_UNIT) \div leverage]_vars

\* C39: a vault is recorded only if the creating transaction is admitted: a
\* create_tuv call whose transaction add_transaction turns down leaves no
\* vault behind.
C39_NoVaultWithoutAdmission ==
    [][CreateTuv("Rezerva", "vault", "TKN", 500, LockPeriod) /\ mempool' = mempool
          => tuvs' = tuvs]_vars

\* C40: after match_orders the order book of the token is uncrossed (every
\* buy price is strictly below every sell price), holds no order with amount
\* 0, and keeps orders of one side and one price in the order they were
\* placed, so that the earlier one is matched first.
book_uncrossed(list) ==
    \A i, j \in 1..Len(list) :
        list[i].type = "buy" /\ list[j].type = "sell" => list[i].price < list[j].price

book_without_empty_orders(list) == \A i \in 1..Len(list) : list[i].amount # 0

book_earliest_first(list) ==
    \A i, j \in 1..Len(list) :
        i < j /\ list[i].type = list[j].type /\ list[i].price = list[j].price
            => list[i].timestamp < list[j].timestamp

C40_BookUncrossedNoEmptyOrder ==
    /\ book_uncrossed(orders_of(orders, "TKN"))
    /\ book_without_empty_orders(orders_of(orders, "TKN"))
    /\ book_earliest_first(orders_of(orders, "TKN"))

\* C35: applying the transactions of a block admits no transaction into the
\* mempool, and with an eligible validator and no further submissions
\* process_mempool has emptied the mempool when its create_block call is over.
process_mempool_over ==
    task["mempool_processing_loop"] \in {"raised_apply", "raised_state_root"}

====
